---- MODULE Spec2Model ----
(***************************************************************************)
(* Model of the bike-sharing analytical pipeline:                          *)
(*   src/src/utils.py     ensure_ucibike_data, download_file               *)
(*   src/src/pipeline.py  main                                             *)
(***************************************************************************)
EXTENDS Integers, Sequences, FiniteSets, TLC

VARIABLES
    remote,     \* the archive the remote location serves (a list of entry names)
    cache,      \* raw cache directory -> [zip, csv]
    prev,       \* the call of ensure_ucibike_data before the current one
    cur,        \* the last call of ensure_ucibike_data and what it did
    ncalls,     \* number of direct calls made
    pc,         \* position of the run
    BIKE_LEVEL,      \* BIKE_LEVEL after normalisation
    df,         \* the table of main(): columns and what the data allows
    files,      \* path -> content, the files under outputs/, reports/, data/processed/
    written,    \* paths written by this run
    reads,      \* paths read by this run
    exc,        \* the exception that left main(): [type, at]
    tbl,        \* an hour-level table: [cols, rows], rows in file order
    tagged,     \* the rows of tbl with the derived columns is_weekend and _daytype
    peak_top,   \* the peak-hours table computed from tbl
    X_train,    \* the training rows of the split
    X_test,     \* the test rows of the split
    results,    \* one record per fitted model, in fitting order
    comparison, \* the rows of model_comparison.csv
    levels,     \* the levels the launcher has still to run, the first one running
    runs,       \* the BIKE_LEVEL of the pipeline runs that returned, in order
    app         \* the dashboard after its last rerun: [level, stopped, found, not_found]

acqVars == <<remote, cache, prev, cur, ncalls>>

runVars == <<pc, BIKE_LEVEL, df, files, written, reads, exc>>

peakVars == <<tbl, tagged, peak_top>>

splitVars == <<X_train, X_test>>

compVars == <<results, comparison>>

launchVars == <<levels, runs, app>>

\* the variables that main() leaves alone
pureVars == <<peakVars, splitVars, compVars, launchVars>>

vars == <<remote, cache, prev, cur, ncalls, pc, BIKE_LEVEL, df, files, written, reads, exc,
          tbl, tagged, peak_top, X_train, X_test, results, comparison,
          levels, runs, app>>

(***************************************************************************)
(* Bounds                                                                  *)
(***************************************************************************)
MaxCalls == 3

\* hours are 0..MaxHour in the tables of the peak-hours computation
MaxHour == 5

\* number of rows of the raw tables that are split
MaxRows == 7

\* RMSE values are 0..MaxRmse
MaxRmse == 4

(***************************************************************************)
(* File names.  A name is the list of the pieces it is made of, cut so     *)
(* that a target file name is always a whole piece: "holiday.csv" is       *)
(* <<"holi", "day.csv">>, "data/day.csv" is <<"data/", "day.csv">>.        *)
(***************************************************************************)
ZipName == <<"bike_sharing_dataset.zip">>

Readme == <<"Readme.txt">>

DayCsv == <<"day.csv">>

HourCsv == <<"hour.csv">>

NestedDayCsv == <<"data/", "day.csv">>

HolidayCsv == <<"holi", "day.csv">>

Levels == {"hour", "day"}

Dirs == {"data/raw", "alt/raw"}

\* the archive as published: Readme.txt, day.csv, hour.csv
FullArchive == <<Readme, DayCsv, HourCsv>>

\* the archives a remote can serve or a cache can hold
Archives ==
    { FullArchive,
      <<Readme, NestedDayCsv>>,
      <<HolidayCsv, HourCsv>>,
      <<Readme>> }

\* outcome of the HTTP fetch
NetOutcomes == {"ok", "unreachable", "timeout", "bad_status", "broken_stream"}

\* utils.py:40
target_name(level) == IF level = "day" THEN "day.csv" ELSE "hour.csv"

\* the pieces that end with "/"
DirPieces == {"data/"}

\* str.endswith on names cut into pieces
EndsWith(n, t) == Len(n) > 0 /\ n[Len(n)] = t

\* utils.py:46  n.endswith("/" + target_name) or n.endswith(target_name)
IsCandidate(n, t) ==
    \/ (Len(n) > 1 /\ n[Len(n) - 1] \in DirPieces /\ EndsWith(n, t))
    \/ EndsWith(n, t)

\* utils.py:46  the list comprehension over z.namelist()
candidates(names, t) == SelectSeq(names, LAMBDA n : IsCandidate(n, t))

NoZip == [st |-> "absent", names |-> <<>>]

PartialZip == [st |-> "partial", names |-> <<>>]

GoodZip(a) == [st |-> "ok", names |-> a]

NoCsv == [present |-> FALSE, data |-> <<>>]

Csv(member) == [present |-> TRUE, data |-> member]

EmptyDir == [zip |-> NoZip, csv |-> [t \in {"hour.csv", "day.csv"} |-> NoCsv]]

(***************************************************************************)
(* download_file: the effect on the destination file and the exception.    *)
(* requests.get raises when the remote cannot be reached or does not       *)
(* answer in time, raise_for_status raises on a non-success status; both   *)
(* happen before dest is opened.  A stream that breaks while the chunks    *)
(* are written leaves a partial file behind.                               *)
(***************************************************************************)
download_file(net, served) ==
    CASE net = "unreachable"   -> [zip |-> NoZip, err |-> "ConnectionError", wrote |-> FALSE]
      [] net = "timeout"       -> [zip |-> NoZip, err |-> "Timeout", wrote |-> FALSE]
      [] net = "bad_status"    -> [zip |-> NoZip, err |-> "HTTPError", wrote |-> FALSE]
      [] net = "broken_stream" -> [zip |-> PartialZip, err |-> "ChunkedEncodingError", wrote |-> TRUE]
      [] OTHER                 -> [zip |-> GoodZip(served), err |-> "none", wrote |-> TRUE]

\* variant: the archive is fetched whether or not it is cached
NeedDownloadAlways(c) == TRUE

\* utils.py:34  if not zip_path.exists()
NeedDownload(c) == c.zip.st = "absent"

\* variant: the member is unpacked whether or not the CSV is there
NeedExtractAlways(c, t) == TRUE

\* utils.py:43  if not target_path.exists()
NeedExtract(c, t) == ~c.csv[t].present

\* variant: the target file is opened for writing before the member is looked up
ExtractCreatesFirst(zip, t) ==
    IF zip.st # "ok"
    THEN [csv |-> NoCsv, err |-> "BadZipFile"]
    ELSE IF candidates(zip.names, t) = <<>>
         THEN [csv |-> Csv(<<>>), err |-> "FileNotFoundError"]
         ELSE [csv |-> Csv(candidates(zip.names, t)[1]), err |-> "none"]

(***************************************************************************)
(* The extraction branch of ensure_ucibike_data, on archive zip.           *)
(* zipfile.ZipFile raises BadZipFile on a file that is no archive.         *)
(***************************************************************************)
Extract(zip, t) ==
    IF zip.st # "ok"
    THEN [csv |-> NoCsv, err |-> "BadZipFile"]
    ELSE IF candidates(zip.names, t) = <<>>
         THEN [csv |-> NoCsv, err |-> "FileNotFoundError"]
         ELSE [csv |-> Csv(candidates(zip.names, t)[1]), err |-> "none"]

(***************************************************************************)
(* ensure_ucibike_data(raw_dir, level) on the directory's content c, with  *)
(* the network answering net and serving the archive served.               *)
(* Result: the directory afterwards, the exception ("none" on a normal     *)
(* return), the returned path, and the I/O the call performed.             *)
(***************************************************************************)
ensure_ucibike_data(c, raw_dir, level, net, served) ==
    LET t    == target_name(level)
        need == NeedDownload(c)
        dl   == IF need THEN download_file(net, served)
                        ELSE [zip |-> c.zip, err |-> "none", wrote |-> FALSE]
        unp  == dl.err = "none" /\ NeedExtract(c, t)
        ex   == IF unp THEN Extract(dl.zip, t)
                       ELSE [csv |-> c.csv[t], err |-> "none"]
        err  == IF dl.err # "none" THEN dl.err ELSE ex.err
    IN  [ dir     |-> [zip |-> dl.zip, csv |-> [c.csv EXCEPT ![t] = ex.csv]],
          err     |-> err,
          path    |-> IF err = "none" THEN <<raw_dir, t>> ELSE <<>>,
          fetches |-> IF need THEN 1 ELSE 0,
          opened  |-> unp,
          wrote   |-> (IF dl.wrote THEN {ZipName} ELSE {})
                        \cup (IF ex.csv # c.csv[t] THEN {<<t>>} ELSE {}) ]

\* the record kept of a call; net is the outcome of the fetch when one was made
CallRecord(d, l, net, before, r) ==
    [ made |-> TRUE, dir |-> d, level |-> l,
      net |-> IF r.fetches > 0 THEN net ELSE "none", err |-> r.err,
      path |-> r.path, fetches |-> r.fetches, opened |-> r.opened,
      wrote |-> r.wrote, before |-> before ]

NoCall ==
    [ made |-> FALSE, dir |-> "", level |-> "", net |-> "", err |-> "none", path |-> <<>>,
      fetches |-> 0, opened |-> FALSE, wrote |-> {}, before |-> EmptyDir ]

DirStates ==
    { [zip |-> z, csv |-> [t \in {"hour.csv", "day.csv"} |-> IF t = "hour.csv" THEN h ELSE d]] :
        z \in {NoZip, PartialZip} \cup {GoodZip(a) : a \in Archives},
        h \in {NoCsv, Csv(HourCsv)},
        d \in {NoCsv, Csv(DayCsv)} }

(***************************************************************************)
(* The run of main() (pipeline.py)                                         *)
(***************************************************************************)
RawDir == "data/raw"

\* variant: the file names under outputs/ carry the level of the run
OutPathKeyed(name) == <<"outputs", <<BIKE_LEVEL, "_", name>>>>

\* a path is <<directory, file name in pieces>>
\* pipeline.py:71  outputs_dir / "<name>"
OutPath(name) == <<"outputs", <<name>>>>

ProcessedPath(lv) == <<"data/processed", <<lv, "_processed.csv">>>>

ReportPath == <<"reports", <<"REPORT.md">>>>

EnvJson == OutPath("env.json")

FigHeatmap == OutPath("fig_heatmap_month_hour.png")

FigTimeseries == OutPath("fig_timeseries.png")

FigTemp == OutPath("fig_temp_vs_cnt.png")

FigAvgByHour == OutPath("fig_avg_by_hour.png")

FigAvgByHourDaytype == OutPath("fig_avg_by_hour_daytype.png")

PeakPath == OutPath("peak_hours.csv")

PeakTxtPath == OutPath("peak_hours_summary.txt")

SummaryPath == OutPath("summary.csv")

MetricsPath == OutPath("metrics.txt")

CompPath == OutPath("model_comparison.csv")

\* values of the BIKE_LEVEL environment variable
EnvValues == {"<unset>", "hour", " Day ", "week"}

\* pipeline.py:64  os.getenv("BIKE_LEVEL", "hour").strip().lower()
StripLower(e) ==
    CASE e = "<unset>" -> "hour"
      [] e = " Day "   -> "day"
      [] OTHER         -> e

\* pipeline.py:64-67
BikeLevel(e) == IF StripLower(e) \in {"hour", "day"} THEN StripLower(e) ELSE "hour"

Columns == {"dteday", "weekday", "workingday", "hr", "mnth", "temp", "season", "cnt"}

\* pipeline.py:229
drop_cols == {"cnt", "casual", "registered", "instant", "dteday"}

(***************************************************************************)
(* What read_csv can return: the columns of the file, whether any dteday   *)
(* value parses (dates), and how many rows keep a cnt value (rows).        *)
(* Feature columns are numeric without missing values.                     *)
(***************************************************************************)
RawTables ==
    { t \in [cols : SUBSET Columns, dates : BOOLEAN, rows : {"none", "one", "many"}] :
        /\ t.dates => ("dteday" \in t.cols /\ t.rows # "none")
        /\ t.cols = {} => t.rows = "none" }

NoTable == [cols |-> {}, dates |-> FALSE, rows |-> "none"]

NoExc == [type |-> "none", at |-> "none"]

Exists(p) == p \in DOMAIN files

\* the content written: the kind of content, its number of rows, the BIKE_LEVEL of the run
Content(kind, rows) == [kind |-> kind, rows |-> rows, level |-> BIKE_LEVEL]

Put(fs, p, c) == [q \in DOMAIN fs \cup {p} |-> IF q = p THEN c ELSE fs[q]]

RunIdle ==
    /\ pc = "idle"
    /\ BIKE_LEVEL = ""
    /\ df = NoTable
    /\ files = << >>
    /\ written = {}
    /\ reads = {}
    /\ exc = NoExc

PeakIdle ==
    /\ tbl = [cols |-> {}, rows |-> <<>>]
    /\ tagged = <<>>
    /\ peak_top = <<>>

SplitIdle ==
    /\ X_train = <<>>
    /\ X_test = <<>>

CompIdle ==
    /\ results = <<>>
    /\ comparison = <<>>

\* the dashboard before its first run
NoApp == [level |-> "", stopped |-> FALSE, found |-> {}, not_found |-> {}]

LaunchIdle ==
    /\ levels = <<>>
    /\ runs = <<>>
    /\ app = NoApp

PureIdle == PeakIdle /\ SplitIdle /\ CompIdle /\ LaunchIdle

\* the cache after a run for each level
WarmDir ==
    [zip |-> GoodZip(FullArchive),
     csv |-> [t \in {"hour.csv", "day.csv"} |-> IF t = "hour.csv" THEN Csv(HourCsv) ELSE Csv(DayCsv)]]

\* a fresh checkout (data/raw is empty) or a cache filled by earlier runs
Init ==
    /\ remote \in {FullArchive, <<Readme, NestedDayCsv>>}
    /\ cache \in [Dirs -> {EmptyDir, WarmDir}]
    /\ cache["alt/raw"] = EmptyDir
    /\ prev = NoCall
    /\ cur = NoCall
    /\ ncalls = 0
    /\ RunIdle
    /\ PureIdle

Raise(type) ==
    /\ pc' = "failed"
    /\ exc' = [type |-> type, at |-> pc]

\* pipeline.py:63-78  BIKE_LEVEL, directories, env.json
Start(e) ==
    /\ pc = "idle"
    /\ BIKE_LEVEL' = BikeLevel(e)
    /\ files' = Put(files, EnvJson, [kind |-> "env", rows |-> "1", level |-> BikeLevel(e)])
    /\ written' = written \cup {EnvJson}
    /\ pc' = "acquire"
    /\ UNCHANGED <<pureVars, acqVars, df, reads, exc>>

\* variant: main() catches the exception and goes on
AfterAcquireSwallow(err) == "load"

\* pipeline.py:81: the exception of ensure_ucibike_data is not caught
AfterAcquire(err) == IF err = "none" THEN "load" ELSE "failed"

\* pipeline.py:81
Acquire(net) ==
    /\ pc = "acquire"
    /\ LET r == ensure_ucibike_data(cache[RawDir], RawDir, BIKE_LEVEL, net, remote)
       IN  /\ cache' = [cache EXCEPT ![RawDir] = r.dir]
           /\ cur' = CallRecord(RawDir, BIKE_LEVEL, net, cache[RawDir], r)
           /\ pc' = AfterAcquire(r.err)
           /\ exc' = IF r.err = "none" THEN exc ELSE [type |-> r.err, at |-> "acquire"]
    /\ prev' = cur
    /\ UNCHANGED <<pureVars, remote, ncalls, BIKE_LEVEL, df, files, written, reads>>

\* pipeline.py:82  pd.read_csv raises EmptyDataError on a file without columns
Load(t) ==
    /\ pc = "load"
    /\ reads' = reads \cup {cur.path}
    /\ IF t.cols = {}
       THEN Raise("EmptyDataError") /\ UNCHANGED df
       ELSE pc' = "clean" /\ df' = t /\ UNCHANGED exc
    /\ UNCHANGED <<pureVars, acqVars, BIKE_LEVEL, files, written>>

\* pipeline.py:84-98  dates, is_weekend, dropna, the processed snapshot
Clean ==
    /\ pc = "clean"
    /\ df' = [df EXCEPT !.cols = IF "weekday" \in @ THEN @ \cup {"is_weekend"} ELSE @]
    /\ files' = Put(files, ProcessedPath(BIKE_LEVEL), Content("processed", "n"))
    /\ written' = written \cup {ProcessedPath(BIKE_LEVEL)}
    /\ pc' = "heatmap"
    /\ UNCHANGED <<pureVars, acqVars, BIKE_LEVEL, reads, exc>>

Save(paths, kind) ==
    /\ files' = [q \in DOMAIN files \cup paths |->
                    IF q \in paths THEN Content(kind, "-") ELSE files[q]]
    /\ written' = written \cup paths

\* pipeline.py:102
HeatmapCols == {"mnth", "hr", "cnt"}

(***************************************************************************)
(* pipeline.py:101-114.  xticks gets 12 labels: where matplotlib refuses a *)
(* different number of ticks, a table with fewer than 23 hours raises.     *)
(***************************************************************************)
Heatmap(raises) ==
    /\ pc = "heatmap"
    /\ IF HeatmapCols \subseteq df.cols
       THEN IF raises
            THEN Raise("ValueError") /\ UNCHANGED <<files, written>>
            ELSE Save({FigHeatmap}, "figure") /\ pc' = "figures" /\ UNCHANGED exc
       ELSE pc' = "figures" /\ UNCHANGED <<files, written, exc>>
    /\ UNCHANGED <<pureVars, acqVars, BIKE_LEVEL, df, reads>>

\* pipeline.py:117
DrawTimeseries(t) == {"dteday", "cnt"} \subseteq t.cols /\ t.dates

\* pipeline.py:129
DrawTemp(t) == {"temp", "cnt"} \subseteq t.cols

\* variant: the hour curve is guarded by the target alone
DrawAvgByHourUnguarded(t) == "cnt" \in t.cols

\* pipeline.py:140
DrawAvgByHour(t) == {"hr", "cnt"} \subseteq t.cols

\* pipeline.py:116-150
Figures ==
    /\ pc = "figures"
    /\ Save( (IF DrawTimeseries(df) THEN {FigTimeseries} ELSE {})
               \cup (IF DrawTemp(df) THEN {FigTemp} ELSE {})
               \cup (IF DrawAvgByHour(df) THEN {FigAvgByHour} ELSE {}), "figure")
    /\ pc' = "peak"
    /\ UNCHANGED <<pureVars, acqVars, BIKE_LEVEL, df, reads, exc>>

\* pipeline.py:156
HasHour(t) == "hr" \in t.cols

\* pipeline.py:196  "_daytype" in peak_top.columns and not peak_top.empty
PeakTxtKind(t) == IF HasHour(t) /\ t.rows # "none" THEN "by_daytype" ELSE "no_summary"

(***************************************************************************)
(* pipeline.py:152-206.  groupby(...)["cnt"] raises KeyError when the      *)
(* table has hr and no cnt.                                                *)
(***************************************************************************)
Peak ==
    /\ pc = "peak"
    /\ IF HasHour(df)
       THEN IF "cnt" \notin df.cols
            THEN Raise("KeyError") /\ UNCHANGED <<files, written>>
            ELSE /\ files' = [q \in DOMAIN files \cup {PeakPath, FigAvgByHourDaytype, PeakTxtPath} |->
                                CASE q = PeakPath -> Content("top5", "n")
                                  [] q = FigAvgByHourDaytype -> Content("figure", "-")
                                  [] q = PeakTxtPath -> Content(PeakTxtKind(df), "-")
                                  [] OTHER -> files[q]]
                 /\ written' = written \cup {PeakPath, FigAvgByHourDaytype, PeakTxtPath}
                 /\ pc' = "summary"
                 /\ UNCHANGED exc
       ELSE /\ files' = [q \in DOMAIN files \cup {PeakPath, PeakTxtPath} |->
                                CASE q = PeakPath -> Content("note", "1")
                                  [] q = PeakTxtPath -> Content(PeakTxtKind(df), "-")
                                  [] OTHER -> files[q]]
            /\ written' = written \cup {PeakPath, PeakTxtPath}
            /\ pc' = "summary"
            /\ UNCHANGED exc
    /\ UNCHANGED <<pureVars, acqVars, BIKE_LEVEL, df, reads>>

\* variant: the summary and the models are guarded like the hour curve
HasTargetAndHour(t) == {"hr", "cnt"} \subseteq t.cols

\* pipeline.py:210, 228
HasTarget(t) == "cnt" \in t.cols

\* pipeline.py:211
HasSeason(t) == "season" \in t.cols

\* pipeline.py:212-221: one row per season value, or one row for the whole table
SummaryContent(t) ==
    IF HasSeason(t) THEN Content("by_season", "n") ELSE Content("dataset", "1")

\* pipeline.py:208-222
Summary ==
    /\ pc = "summary"
    /\ IF HasTarget(df)
       THEN /\ files' = Put(files, SummaryPath, SummaryContent(df))
            /\ written' = written \cup {SummaryPath}
       ELSE UNCHANGED <<files, written>>
    /\ pc' = "model"
    /\ UNCHANGED <<pureVars, acqVars, BIKE_LEVEL, df, reads, exc>>

\* pipeline.py:230
Features(t) == t.cols \ drop_cols

(***************************************************************************)
(* pipeline.py:237-257: with fewer than two rows the training part is      *)
(* empty, with no feature column the design matrix is: fit raises          *)
(* ValueError before anything is written.                                  *)
(***************************************************************************)
CanFit(t) == t.rows = "many" /\ Features(t) # {}

\* pipeline.py:224-299
Model ==
    /\ pc = "model"
    /\ IF HasTarget(df)
       THEN IF CanFit(df)
            THEN /\ files' = [q \in DOMAIN files \cup {MetricsPath, CompPath} |->
                                CASE q = MetricsPath -> Content("ridge", "-")
                                  [] q = CompPath -> Content("comparison", "2")
                                  [] OTHER -> files[q]]
                 /\ written' = written \cup {MetricsPath, CompPath}
                 /\ pc' = "report"
                 /\ UNCHANGED exc
            ELSE Raise("ValueError") /\ UNCHANGED <<files, written>>
       ELSE pc' = "report" /\ UNCHANGED <<files, written, exc>>
    /\ UNCHANGED <<pureVars, acqVars, BIKE_LEVEL, df, reads>>

\* pipeline.py:301-352  REPORT.md, then the list of missing artefacts is printed
Report ==
    /\ pc = "report"
    /\ files' = Put(files, ReportPath, Content("report", "-"))
    /\ written' = written \cup {ReportPath}
    /\ pc' = "done"
    /\ UNCHANGED <<pureVars, acqVars, BIKE_LEVEL, df, reads, exc>>

Next ==
    \/ \E e \in EnvValues : Start(e)
    \/ \E net \in NetOutcomes : Acquire(net)
    \/ \E t \in RawTables : Load(t)
    \/ Clean
    \/ \E raises \in BOOLEAN : Heatmap(raises)
    \/ Figures
    \/ Peak
    \/ Summary
    \/ Model
    \/ Report

Spec == Init /\ [][Next]_vars

(***************************************************************************)
(* Direct calls of the acquisition function                                *)
(***************************************************************************)
AcqInit ==
    /\ remote \in Archives
    /\ cache \in [Dirs -> DirStates]
    /\ cache["alt/raw"] = EmptyDir
    /\ prev = NoCall
    /\ cur = NoCall
    /\ ncalls = 0
    /\ RunIdle
    /\ PureIdle

Call(d, l, net) ==
    /\ ncalls < MaxCalls
    /\ LET r == ensure_ucibike_data(cache[d], d, l, net, remote)
       IN  /\ cache' = [cache EXCEPT ![d] = r.dir]
           /\ cur' = CallRecord(d, l, net, cache[d], r)
    /\ prev' = cur
    /\ ncalls' = ncalls + 1
    /\ UNCHANGED <<pureVars, remote, runVars>>

AcqNext == \E d \in Dirs, l \in Levels, net \in NetOutcomes : Call(d, l, net)

SpecAcq == AcqInit /\ [][AcqNext]_vars

(***************************************************************************)
(* The peak-hours table (pipeline.py:88-90, 156-168) on explicit rows      *)
(***************************************************************************)
AcqIdle ==
    /\ remote = FullArchive
    /\ cache = [d \in Dirs |-> EmptyDir]
    /\ prev = NoCall
    /\ cur = NoCall
    /\ ncalls = 0

\* pipeline.py:167  head(5)
TopN == 5

\* pipeline.py:90  df["weekday"].isin([0, 6]).astype(int)
is_weekend(r) == IF r.weekday \in {0, 6} THEN 1 ELSE 0

\* pipeline.py:157  df.get("is_weekend", 0): the column exists when weekday does
WeekendFlag(cols, r) == IF "weekday" \in cols THEN is_weekend(r) ELSE 0

\* variant: a day that is not a working day is a non-workingday, weekend or not
daytype_by_workingday(cols, r) ==
    IF "workingday" \in cols /\ r.workingday = 0
    THEN "non-workingday"
    ELSE IF WeekendFlag(cols, r) = 1 THEN "weekend" ELSE "workingday"

\* pipeline.py:157-159
daytype(cols, r) ==
    IF {"workingday", "weekday"} \subseteq cols /\ r.workingday = 0 /\ WeekendFlag(cols, r) = 0
    THEN "non-workingday"
    ELSE IF WeekendFlag(cols, r) = 1 THEN "weekend" ELSE "workingday"

\* the day types in the order groupby and sort_values put the strings
DayTypes == <<"non-workingday", "weekend", "workingday">>

DayTypeRank(c) == CHOOSE i \in 1..Len(DayTypes) : DayTypes[i] = c

Hours == 0..MaxHour

\* every (day type, hour) key in ascending order, as groupby sorts its groups
AllKeys ==
    [i \in 1..(Len(DayTypes) * (MaxHour + 1)) |->
        [_daytype |-> DayTypes[((i - 1) \div (MaxHour + 1)) + 1],
         hr |-> (i - 1) % (MaxHour + 1)]]

InGroup(t, k, r) == daytype(t.cols, r) = k._daytype /\ r.hr = k.hr

RECURSIVE SumCnt(_, _, _)
\* sum of cnt over the rows of group k among the first n rows
SumCnt(t, k, n) ==
    IF n = 0 THEN 0
    ELSE SumCnt(t, k, n - 1) + (IF InGroup(t, k, t.rows[n]) THEN t.rows[n].cnt ELSE 0)

RECURSIVE CountRows(_, _, _)
CountRows(t, k, n) ==
    IF n = 0 THEN 0
    ELSE CountRows(t, k, n - 1) + (IF InGroup(t, k, t.rows[n]) THEN 1 ELSE 0)

\* pipeline.py:162-164  groupby(["_daytype", "hr"])["cnt"].mean(): one row per
\* group that has rows, in key order; the mean is kept as the pair sum, n
GroupMeans(t) ==
    LET present == SelectSeq(AllKeys, LAMBDA k : CountRows(t, k, Len(t.rows)) > 0)
    IN  [i \in 1..Len(present) |->
            [_daytype |-> present[i]._daytype, hr |-> present[i].hr,
             sum |-> SumCnt(t, present[i], Len(t.rows)),
             n |-> CountRows(t, present[i], Len(t.rows))]]

\* avg_cnt of a is greater than avg_cnt of b
MeanGreater(a, b) == a.sum * b.n > b.sum * a.n

MeanEqual(a, b) == a.sum * b.n = b.sum * a.n

\* sort order of pipeline.py:165: _daytype ascending, then avg_cnt descending
Before(a, b) ==
    \/ DayTypeRank(a._daytype) < DayTypeRank(b._daytype)
    \/ (a._daytype = b._daytype /\ MeanGreater(a, b))

RECURSIVE InsertStable(_, _)
\* x goes after every row that is not after it: equal rows keep their order
InsertStable(sorted, x) ==
    IF sorted = <<>> THEN <<x>>
    ELSE IF Before(x, sorted[Len(sorted)])
         THEN Append(InsertStable(SubSeq(sorted, 1, Len(sorted) - 1), x), sorted[Len(sorted)])
         ELSE Append(sorted, x)

RECURSIVE SortFrom(_, _)
SortFrom(s, n) == IF n = 0 THEN <<>> ELSE InsertStable(SortFrom(s, n - 1), s[n])

Reverse(s) == [i \in 1..Len(s) |-> s[Len(s) + 1 - i]]

\* variant: an unstable order, rows with equal keys come out reversed
sort_values_unstable(s) == SortFrom(Reverse(s), Len(s))

\* pipeline.py:165  sort_values on two keys is a stable sort
sort_values(s) == SortFrom(s, Len(s))

\* number of rows of the day type of s[i] among s[1..i]
RankInGroup(s, i) == Cardinality({j \in 1..i : s[j]._daytype = s[i]._daytype})

\* pipeline.py:167  groupby("_daytype").head(5): the first rows of each group
head(s, n) ==
    LET keep == {i \in 1..Len(s) : RankInGroup(s, i) <= n}
        idx  == SelectSeq([i \in 1..Len(s) |-> i], LAMBDA i : i \in keep)
    IN  [i \in 1..Len(idx) |-> s[idx[i]]]

\* pipeline.py:90, 157-159: the rows with the columns is_weekend (-1 where
\* the table has no weekday, hence no is_weekend) and _daytype
Tagged(t) ==
    [i \in 1..Len(t.rows) |->
        [weekday    |-> t.rows[i].weekday,
         workingday |-> t.rows[i].workingday,
         hr         |-> t.rows[i].hr,
         cnt        |-> t.rows[i].cnt,
         is_weekend |-> IF "weekday" \in t.cols THEN is_weekend(t.rows[i]) ELSE -1,
         _daytype   |-> daytype(t.cols, t.rows[i])]]

\* pipeline.py:161-167
PeakTop(t) == head(sort_values(GroupMeans(t)), TopN)

(***************************************************************************)
(* Tables: the rows of the hours come in descending hour order, each hour  *)
(* with one of a few lists of cnt values on working days, followed by      *)
(* rows of other days.                                                     *)
(***************************************************************************)
CntLists == {<<1>>, <<2>>, <<1, 3>>}

RowsOfHour(h, cnts) ==
    [i \in 1..Len(cnts) |-> [weekday |-> 1, workingday |-> 1, hr |-> h, cnt |-> cnts[i]]]

RECURSIVE WorkingRows(_, _)
\* the rows of hours n-1, ..., 0 with f[h] the cnt values of hour h
WorkingRows(f, n) ==
    IF n = 0 THEN <<>> ELSE RowsOfHour(n - 1, f[n - 1]) \o WorkingRows(f, n - 1)

ExtraRows ==
    { <<>>,
      <<[weekday |-> 6, workingday |-> 0, hr |-> 1, cnt |-> 2]>>,
      <<[weekday |-> 0, workingday |-> 0, hr |-> 1, cnt |-> 3],
        [weekday |-> 6, workingday |-> 0, hr |-> 0, cnt |-> 3],
        [weekday |-> 3, workingday |-> 0, hr |-> 1, cnt |-> 2],
        [weekday |-> 6, workingday |-> 0, hr |-> 1, cnt |-> 3]>> }

\* hr and cnt are there; weekday and workingday may be missing
ColumnSets == {{"weekday", "workingday"}, {"weekday"}, {"workingday"}}

\* the table of hours 0..n-1 with cnt lists f, other rows x and flag columns c
PeakTable(n, f, x, c) == [cols |-> c, rows |-> WorkingRows(f, n) \o x]

PeakInit ==
    /\ AcqIdle
    /\ pc = "table"
    /\ BIKE_LEVEL = "hour"
    /\ df = NoTable
    /\ files = << >>
    /\ written = {}
    /\ reads = {}
    /\ exc = NoExc
    /\ \E n \in 1..(MaxHour + 1) :
          \E f \in [0..(n - 1) -> CntLists], x \in ExtraRows, c \in ColumnSets :
             tbl = PeakTable(n, f, x, c)
    /\ tagged = <<>>
    /\ peak_top = <<>>
    /\ SplitIdle
    /\ CompIdle
    /\ LaunchIdle

\* pipeline.py:156-168
PeakHours ==
    /\ pc = "table"
    /\ tagged' = Tagged(tbl)
    /\ peak_top' = PeakTop(tbl)
    /\ pc' = "peaked"
    /\ UNCHANGED <<acqVars, BIKE_LEVEL, df, files, written, reads, exc, tbl, splitVars, compVars, launchVars>>

PeakNext == PeakHours

SpecPeak == PeakInit /\ [][PeakNext]_vars

(***************************************************************************)
(* The train/test split (pipeline.py:85-94, 237-245) on explicit rows      *)
(***************************************************************************)
\* a raw row: its line in the file, whether dteday parses, whether cnt is there
RowKinds ==
    { [dteday |-> "date", cnt |-> "num"],
      [dteday |-> "NaT", cnt |-> "num"],
      [dteday |-> "date", cnt |-> "NaN"] }

\* the raw table of n rows of kinds k, with the columns c and cnt
SplitTable(n, k, c) ==
    [cols |-> c \cup {"cnt"},
     rows |-> [i \in 1..n |-> [id |-> i, dteday |-> k[i].dteday, cnt |-> k[i].cnt]]]

\* pipeline.py:94  df.dropna(subset=["cnt"])
dropna(rows) == SelectSeq(rows, LAMBDA r : r.cnt # "NaN")

\* pipeline.py:238  "dteday" in df.columns and df["dteday"].notna().any()
HasDateAxis(cols, rows) ==
    "dteday" \in cols /\ \E i \in 1..Len(rows) : rows[i].dteday # "NaT"

\* variant: the split point is rounded to the nearest row
SplitPointRounded(n) == (n * 8 + 5) \div 10

\* pipeline.py:239  int(len(df) * 0.8): the product is within half an ulp of
\* 8n/10, so the truncation is the integer floor
SplitPoint(n) == (n * 8) \div 10

\* train_test_split(test_size=0.2): n_test = ceil(0.2 n), n_train = n - n_test
TestSize(n) == (n * 2 + 9) \div 10

SplitInit ==
    /\ AcqIdle
    /\ pc = "cleaning"
    /\ BIKE_LEVEL = "hour"
    /\ df = NoTable
    /\ files = << >>
    /\ written = {}
    /\ reads = {}
    /\ exc = NoExc
    /\ \E n \in 0..MaxRows :
          \E k \in [1..n -> RowKinds], c \in {{"dteday"}, {}} :
             tbl = SplitTable(n, k, c)
    /\ tagged = <<>>
    /\ peak_top = <<>>
    /\ SplitIdle
    /\ CompIdle
    /\ LaunchIdle

\* pipeline.py:239-241  the first rows train, the remaining rows test
TimeSplit ==
    /\ pc = "cleaning"
    /\ HasDateAxis(tbl.cols, dropna(tbl.rows))
    /\ LET d == dropna(tbl.rows)
       IN  /\ X_train' = SubSeq(d, 1, SplitPoint(Len(d)))
           /\ X_test' = SubSeq(d, SplitPoint(Len(d)) + 1, Len(d))
    /\ pc' = "time_split"
    /\ UNCHANGED <<acqVars, BIKE_LEVEL, df, files, written, reads, exc, peakVars, compVars, launchVars>>

\* pipeline.py:243-245  a seeded shuffle: some TestSize rows test, the others
\* train, both kept as sets; train_test_split raises when no row is left to train
RandomSplit(T) ==
    /\ pc = "cleaning"
    /\ ~HasDateAxis(tbl.cols, dropna(tbl.rows))
    /\ LET d == dropna(tbl.rows)
           all == {d[i] : i \in 1..Len(d)}
       IN  IF Len(d) - TestSize(Len(d)) <= 0
           THEN pc' = "split_error" /\ UNCHANGED splitVars
           ELSE /\ T \subseteq all
                /\ Cardinality(T) = TestSize(Len(d))
                /\ X_test' = T
                /\ X_train' = all \ T
                /\ pc' = "random_split"
    /\ UNCHANGED <<acqVars, BIKE_LEVEL, df, files, written, reads, exc, peakVars, compVars, launchVars>>

RECURSIVE KSubsets(_, _)
\* the subsets of S of k elements
KSubsets(S, k) ==
    IF k = 0 THEN {{}}
    ELSE UNION { {T \cup {x} : T \in KSubsets({y \in S : y.id > x.id}, k - 1)} : x \in S }

SplitNext ==
    \/ TimeSplit
    \/ \E T \in KSubsets({dropna(tbl.rows)[i] : i \in 1..Len(dropna(tbl.rows))},
                            TestSize(Len(dropna(tbl.rows)))) :
          RandomSplit(T)

SpecSplit == SplitInit /\ [][SplitNext]_vars

(***************************************************************************)
(* The comparison table (pipeline.py:287-299)                              *)
(***************************************************************************)
\* pipeline.py:288
ModelNames == <<"Ridge", "RandomForest">>

\* what the fits can score on the test rows: RMSE and R2 per model
Scores == [{"Ridge", "RandomForest"} -> [rmse : 0..MaxRmse, r2 : {-1, 0, 1}]]

RECURSIVE InsertByRmse(_, _)
InsertByRmse(sorted, x) ==
    IF sorted = <<>> THEN <<x>>
    ELSE IF x.rmse < sorted[Len(sorted)].rmse
         THEN Append(InsertByRmse(SubSeq(sorted, 1, Len(sorted) - 1), x), sorted[Len(sorted)])
         ELSE Append(sorted, x)

RECURSIVE SortByRmseFrom(_, _)
SortByRmseFrom(s, n) == IF n = 0 THEN <<>> ELSE InsertByRmse(SortByRmseFrom(s, n - 1), s[n])

\* variant: the table is sorted with ascending=False
sort_by_rmse_descending(s) == Reverse(SortByRmseFrom(s, Len(s)))

\* pipeline.py:299  sort_values("rmse")
sort_by_rmse(s) == SortByRmseFrom(s, Len(s))

TestSets ==
    { <<[id |-> 2, dteday |-> "date", cnt |-> "num"]>>,
      <<[id |-> 4, dteday |-> "date", cnt |-> "num"], [id |-> 5, dteday |-> "NaT", cnt |-> "num"]>> }

CompInit ==
    /\ AcqIdle
    /\ pc = "fitting"
    /\ BIKE_LEVEL = "hour"
    /\ df = NoTable
    /\ files = << >>
    /\ written = {}
    /\ reads = {}
    /\ exc = NoExc
    /\ PeakIdle
    /\ X_train = <<>>
    /\ X_test \in TestSets
    /\ CompIdle
    /\ LaunchIdle

\* pipeline.py:287-299  each model is scored on X_test, the rows are sorted
Compare(sc) ==
    /\ pc = "fitting"
    /\ results' = [i \in 1..Len(ModelNames) |->
                      [model |-> ModelNames[i], rmse |-> sc[ModelNames[i]].rmse,
                       r2 |-> sc[ModelNames[i]].r2, test |-> X_test]]
    /\ comparison' = sort_by_rmse(results')
    /\ pc' = "compared"
    /\ UNCHANGED <<acqVars, BIKE_LEVEL, df, files, written, reads, exc, peakVars, splitVars, launchVars>>

CompNext == \E sc \in Scores : Compare(sc)

SpecCompare == CompInit /\ [][CompNext]_vars

(***************************************************************************)
(* The launcher (run.py) and the dashboard (app.py): run_pipeline runs     *)
(* main() once per level in a process of its own, against the same         *)
(* directories, then run_streamlit starts the dashboard.                   *)
(***************************************************************************)
\* run.py:76-79  both levels unless BIKE_LEVEL is set
LauncherLevels(e) == IF e = "<unset>" THEN <<"hour", "day">> ELSE <<StripLower(e)>>

\* the table read_csv returns on the published hour.csv or day.csv
Published(lv) ==
    [cols |-> IF lv = "hour" THEN Columns ELSE Columns \ {"hr"},
     dates |-> TRUE, rows |-> "many"]

\* the tables of a level: the published file, or one cut to its first row
DatasetTables(lv) == {Published(lv), [Published(lv) EXCEPT !.rows = "one"]}

\* app.py:33-73  f"outputs/{level}_<name>"
AppPath(lv, name) == <<"outputs", <<lv, "_", name>>>>

\* app.py:33, 45, 52, 56  the tables and the metrics the dashboard looks for
AppTables(lv) ==
    { AppPath(lv, "peak_hours.csv"), AppPath(lv, "summary.csv"),
      AppPath(lv, "metrics.txt"), AppPath(lv, "model_comparison.csv") }

\* app.py:67-73
figs(lv) ==
    { AppPath(lv, "fig_heatmap_month_hour.png"), AppPath(lv, "fig_avg_by_hour_daytype.png"),
      AppPath(lv, "fig_timeseries.png"), AppPath(lv, "fig_avg_by_hour.png"),
      AppPath(lv, "fig_temp_vs_cnt.png") }

AppPaths(lv) == AppTables(lv) \cup figs(lv)

LaunchInit ==
    /\ remote \in {FullArchive, <<Readme, NestedDayCsv>>}
    /\ cache \in [Dirs -> {EmptyDir, WarmDir}]
    /\ cache["alt/raw"] = EmptyDir
    /\ prev = NoCall
    /\ cur = NoCall
    /\ ncalls = 0
    /\ pc = "launcher"
    /\ BIKE_LEVEL = ""
    /\ df = NoTable
    /\ files = << >>
    /\ written = {}
    /\ reads = {}
    /\ exc = NoExc
    /\ PureIdle

\* run.py:74-79
run_pipeline(e) ==
    /\ pc = "launcher"
    /\ levels' = LauncherLevels(e)
    /\ pc' = "loop"
    /\ UNCHANGED <<acqVars, BIKE_LEVEL, df, files, written, reads, exc,
                   peakVars, splitVars, compVars, runs, app>>

\* run.py:81-85  a new process for the next level: nothing of the last run
\* is left but the files
Spawn ==
    /\ pc = "loop"
    /\ levels # <<>>
    /\ pc' = "idle"
    /\ BIKE_LEVEL' = ""
    /\ df' = NoTable
    /\ written' = {}
    /\ reads' = {}
    /\ exc' = NoExc
    /\ UNCHANGED <<acqVars, files, pureVars>>

\* run.py:84  env["BIKE_LEVEL"] = level, then main() starts
StartLevel == levels # <<>> /\ Start(Head(levels))

\* run.py:85  check_call returns when main() has returned
Returned ==
    /\ pc = "done"
    /\ levels # <<>>
    /\ runs' = Append(runs, BIKE_LEVEL)
    /\ levels' = Tail(levels)
    /\ pc' = "loop"
    /\ UNCHANGED <<acqVars, BIKE_LEVEL, df, files, written, reads, exc,
                   peakVars, splitVars, compVars, app>>

\* run.py:85  check_call raises CalledProcessError when main() has raised:
\* the launcher ends, no further level is run and no dashboard is started
PipelineFailed ==
    /\ pc = "failed"
    /\ levels # <<>>
    /\ pc' = "aborted"
    /\ UNCHANGED <<acqVars, BIKE_LEVEL, df, files, written, reads, exc, pureVars>>

\* run.py:88-94, 134-135
run_streamlit ==
    /\ pc = "loop"
    /\ levels = <<>>
    /\ pc' = "streamlit"
    /\ UNCHANGED <<acqVars, BIKE_LEVEL, df, files, written, reads, exc, pureVars>>

\* app.py:15-80  one run of the script with lv chosen in the sidebar
Dashboard(lv) ==
    /\ pc = "streamlit"
    /\ app' = IF ~Exists(ProcessedPath(lv))
              THEN [level |-> lv, stopped |-> TRUE, found |-> {}, not_found |-> {}]
              ELSE [level |-> lv, stopped |-> FALSE,
                    found |-> {p \in AppPaths(lv) : Exists(p)},
                    not_found |-> {p \in AppPaths(lv) : ~Exists(p)}]
    /\ UNCHANGED <<acqVars, runVars, peakVars, splitVars, compVars, levels, runs>>

LaunchNext ==
    \/ \E e \in EnvValues : run_pipeline(e)
    \/ Spawn
    \/ StartLevel
    \/ \E net \in NetOutcomes : Acquire(net)
    \/ \E t \in DatasetTables(BIKE_LEVEL) : Load(t)
    \/ Clean
    \/ \E raises \in BOOLEAN : Heatmap(raises)
    \/ Figures
    \/ Peak
    \/ Summary
    \/ Model
    \/ Report
    \/ Returned
    \/ PipelineFailed
    \/ run_streamlit
    \/ \E lv \in Levels : Dashboard(lv)

SpecLaunch == LaunchInit /\ [][LaunchNext]_vars

(***************************************************************************)
(* Properties of the acquisition function (SpecAcq)                        *)
(***************************************************************************)
SameTarget == prev.made /\ cur.made /\ prev.dir = cur.dir /\ prev.level = cur.level

\* C1: when ensure_ucibike_data is called twice in a row with the same
\* directory and level and the first call returned, the second call fetches
\* nothing, does not open the archive, writes nothing, returns the path the
\* first call returned and leaves archive and CSV as they were.
IdempotentAcquisition ==
    (SameTarget /\ prev.err = "none") =>
        /\ cur.err = "none"
        /\ cur.fetches = 0
        /\ ~cur.opened
        /\ cur.wrote = {}
        /\ cur.path = prev.path
        /\ cache[cur.dir] = cur.before

\* the first call downloaded and unpacked, and the same call was made again
IdempotentAcquisitionWitness ==
    /\ SameTarget
    /\ prev.err = "none"
    /\ prev.fetches = 1
    /\ prev.opened
    /\ cur.err = "none"

\* C2: a call that returns leaves raw_dir/<level>.csv in place and returns its
\* path; it fetched only if the archive was absent and opened the archive only
\* if the CSV was absent; a cold start writes exactly the archive and the CSV,
\* and the call for the other level after a cold start writes exactly the
\* other CSV and fetches nothing.
AcquisitionContract ==
    (cur.made /\ cur.err = "none") =>
        LET t == target_name(cur.level)
        IN  /\ cache[cur.dir].csv[t].present
            /\ cur.path = <<cur.dir, t>>
            /\ (cur.fetches > 0 => cur.before.zip.st = "absent")
            /\ (cur.opened => ~cur.before.csv[t].present)
            /\ (cur.before.zip.st = "absent" /\ ~cur.before.csv[t].present
                    => cur.wrote = {ZipName, <<t>>})
            /\ (prev.made /\ prev.err = "none" /\ prev.before = EmptyDir
                  /\ prev.dir = cur.dir /\ prev.level # cur.level
                    => cur.wrote = {<<t>>} /\ cur.fetches = 0)

\* a cold start for one level, then the call for the other level
AcquisitionContractWitness ==
    /\ cur.made /\ cur.err = "none"
    /\ prev.made /\ prev.err = "none" /\ prev.before = EmptyDir
    /\ prev.wrote = {ZipName, <<target_name(prev.level)>>}
    /\ prev.dir = cur.dir /\ prev.level # cur.level
    /\ cur.wrote = {<<target_name(cur.level)>>}

\* the CSV was missing, the archive was read and holds no entry for the level
MemberMissing ==
    /\ cur.made
    /\ ~cur.before.csv[target_name(cur.level)].present
    /\ cache[cur.dir].zip.st = "ok"
    /\ candidates(cache[cur.dir].zip.names, target_name(cur.level)) = <<>>

\* C3 as stated: a missing member makes the call fail with CorruptArchiveError
\* and no CSV is created.
MissingMemberRaisesCorruptArchiveError ==
    MemberMissing =>
        /\ cur.err = "CorruptArchiveError"
        /\ ~cache[cur.dir].csv[target_name(cur.level)].present

\* C3 (amended): a missing member makes the call fail with FileNotFoundError,
\* nothing is returned and no CSV is created at the target path.
MissingMemberRaisesFileNotFound ==
    MemberMissing =>
        /\ cur.err = "FileNotFoundError"
        /\ cur.path = <<>>
        /\ <<target_name(cur.level)>> \notin cur.wrote
        /\ ~cache[cur.dir].csv[target_name(cur.level)].present

\* the archive was just downloaded and lacks the member
MissingMemberWitness ==
    /\ MemberMissing
    /\ cur.fetches = 1
    /\ cur.opened
    /\ cur.err = "FileNotFoundError"

(***************************************************************************)
(* Properties of the run (Spec)                                            *)
(***************************************************************************)
\* the archive was absent and the fetch failed before anything was stored
FetchFailed ==
    /\ cur.made
    /\ cur.before.zip.st = "absent"
    /\ cur.net \in {"unreachable", "timeout", "bad_status"}

\* the outputs of the stages after acquisition
LaterOutputs ==
    {ProcessedPath("hour"), ProcessedPath("day"), PeakPath, PeakTxtPath, SummaryPath,
     MetricsPath, CompPath, ReportPath}

RunStoppedAtAcquisition ==
    /\ pc = "failed"
    /\ exc.at = "acquire"
    /\ exc.type = cur.err
    /\ reads = {}
    /\ written \cap LaterOutputs = {}

\* C4 as stated: the failed fetch leaves main() as a NetworkError and no later
\* stage runs.
FetchFailureIsNetworkError ==
    FetchFailed => (RunStoppedAtAcquisition /\ exc.type = "NetworkError")

\* C4 (amended): the failed fetch leaves main() as the exception requests
\* raised (ConnectionError or Timeout when the remote is not reached,
\* HTTPError on a non-success status), unmodified; the run stops there: the
\* CSV is not read and no later output is written.
FetchFailureStopsRun ==
    FetchFailed =>
        /\ RunStoppedAtAcquisition
        /\ exc.type = (CASE cur.net = "unreachable" -> "ConnectionError"
                         [] cur.net = "timeout" -> "Timeout"
                         [] OTHER -> "HTTPError")

FetchFailureWitness == FetchFailed /\ pc = "failed" /\ exc.type = "HTTPError"

\* C5: after a completed run on a table with cnt, metrics.txt, summary.csv,
\* peak_hours.csv, model_comparison.csv and REPORT.md exist, written by the
\* run; at level day with only dteday, season and cnt the summary is per
\* season and peak_hours.csv is the fallback note.
ArtefactsAfterRun ==
    (pc = "done" /\ "cnt" \in df.cols) =>
        /\ {MetricsPath, SummaryPath, PeakPath, CompPath, ReportPath} \subseteq DOMAIN files
        /\ {MetricsPath, SummaryPath, PeakPath, CompPath, ReportPath} \subseteq written
        /\ (BIKE_LEVEL = "day" /\ df.cols = {"dteday", "season", "cnt"}
              => /\ files[SummaryPath].kind = "by_season"
                 /\ files[PeakPath].kind = "note"
                 /\ files[MetricsPath].level = "day"
                 /\ files[CompPath].level = "day")

ArtefactsAfterRunWitness ==
    /\ pc = "done"
    /\ BIKE_LEVEL = "day"
    /\ df.cols = {"dteday", "season", "cnt"}
    /\ files[SummaryPath].kind = "by_season"

HourFigures == {FigHeatmap, FigAvgByHour, FigAvgByHourDaytype}

PastPeak ==
    \/ pc \in {"summary", "model", "report", "done"}
    \/ (pc = "failed" /\ exc.at \in {"summary", "model"})

\* C6: for a table without hr the run writes peak_hours.csv as the one-row
\* fallback note and none of the hour-based figures; for a table without
\* season the summary the run writes has exactly one row.
SchemaConditionalOutputs ==
    /\ ("hr" \notin df.cols) => (written \cap HourFigures = {})
    /\ (PastPeak /\ "hr" \notin df.cols)
          => /\ PeakPath \in written
             /\ files[PeakPath].kind = "note"
             /\ files[PeakPath].rows = "1"
    /\ (SummaryPath \in written /\ "season" \notin df.cols)
          => files[SummaryPath].rows = "1"

SchemaConditionalOutputsWitness ==
    /\ pc = "done"
    /\ "hr" \notin df.cols
    /\ "season" \notin df.cols
    /\ {"mnth", "cnt"} \subseteq df.cols
    /\ SummaryPath \in written

\* C10 as stated: whatever columns the table has, the run does not raise and
\* reaches the report (failures of acquisition, of an empty file, of the
\* tick labels and of a table with fewer than two rows set aside); without
\* cnt no metrics.txt and no model_comparison.csv are written.
GracefulOmission ==
    /\ (pc = "failed") => (exc.at \in {"acquire", "load", "heatmap"} \/ df.rows # "many")
    /\ (pc = "done" /\ "cnt" \notin df.cols) => (written \cap {MetricsPath, CompPath} = {})

(***************************************************************************)
(* Properties of the peak-hours table (SpecPeak)                           *)
(***************************************************************************)
\* the rows of tbl of day type c and hour h
RowsAt(c, h) ==
    {i \in 1..Len(tbl.rows) : daytype(tbl.cols, tbl.rows[i]) = c /\ tbl.rows[i].hr = h}

RECURSIVE Total(_)
Total(I) ==
    IF I = {} THEN 0
    ELSE LET i == CHOOSE x \in I : TRUE IN tbl.rows[i].cnt + Total(I \ {i})

\* the mean of cnt at day type c and hour h, as the pair sum, n
MeanAt(c, h) == [sum |-> Total(RowsAt(c, h)), n |-> Cardinality(RowsAt(c, h))]

HoursOf(c) == {h \in Hours : RowsAt(c, h) # {}}

OutputOf(c) == SelectSeq(peak_top, LAMBDA r : r._daytype = c)

OutputHours(c) == {OutputOf(c)[i].hr : i \in 1..Len(OutputOf(c))}

Min(a, b) == IF a < b THEN a ELSE b

\* C7: for each day type the peak-hours table holds min(5, number of hours
\* of the day type) rows, each with the mean of its hour, in descending
\* order of the mean, hours of equal mean in ascending hour order; every
\* hour left out has a smaller mean than every row kept, or an equal mean
\* and a later hour.
PeakHoursCorrect ==
    (pc = "peaked") =>
        \A c \in {DayTypes[k] : k \in 1..Len(DayTypes)} :
            LET out == OutputOf(c)
            IN  /\ Len(out) = Min(5, Cardinality(HoursOf(c)))
                /\ \A i \in 1..Len(out) :
                      /\ out[i].hr \in HoursOf(c)
                      /\ out[i].sum = MeanAt(c, out[i].hr).sum
                      /\ out[i].n = MeanAt(c, out[i].hr).n
                /\ \A i, j \in 1..Len(out) :
                      i < j => \/ MeanGreater(out[i], out[j])
                               \/ (MeanEqual(out[i], out[j]) /\ out[i].hr < out[j].hr)
                /\ \A h \in HoursOf(c) \ OutputHours(c) : \A i \in 1..Len(out) :
                      \/ MeanGreater(out[i], MeanAt(c, h))
                      \/ (MeanEqual(out[i], MeanAt(c, h)) /\ out[i].hr < h)

\* six hours on working days, the fifth row ties with the hour cut, and
\* the table has weekend rows too
PeakHoursWitness ==
    /\ pc = "peaked"
    /\ Cardinality(HoursOf("workingday")) = 6
    /\ Len(OutputOf("workingday")) = 5
    /\ \E h \in HoursOf("workingday") \ OutputHours("workingday") :
          /\ MeanEqual(OutputOf("workingday")[5], MeanAt("workingday", h))
          /\ MeanEqual(OutputOf("workingday")[4], MeanAt("workingday", h))
    /\ Len(OutputOf("weekend")) = 2

(***************************************************************************)
(* Properties of the split (SpecSplit)                                     *)
(***************************************************************************)
\* the lines of the raw rows that have a cnt value
KeptIds == {i \in 1..Len(tbl.rows) : tbl.rows[i].cnt # "NaN"}

IdsOf(s) == {s[i].id : i \in 1..Len(s)}

Ascending(s) == \A i, j \in 1..Len(s) : i < j => s[i].id < s[j].id

\* C8: with a usable date axis and N cleaned rows, the training rows are the
\* first floor(0.8 N) cleaned rows in file order and the test rows the
\* remaining N - floor(0.8 N) in file order: disjoint, covering all N rows,
\* none reordered.
SplitDiscipline ==
    (pc \in {"time_split", "random_split"}
        /\ "dteday" \in tbl.cols
        /\ \E i \in KeptIds : tbl.rows[i].dteday # "NaT")
    => LET N == Cardinality(KeptIds)
           k == (4 * N) \div 5
       IN  /\ pc = "time_split"
           /\ Len(X_train) = k
           /\ Len(X_test) = N - k
           /\ IdsOf(X_train) \cap IdsOf(X_test) = {}
           /\ IdsOf(X_train) \cup IdsOf(X_test) = KeptIds
           /\ Ascending(X_train \o X_test)
           /\ \A i \in 1..Len(X_train \o X_test) :
                 (X_train \o X_test)[i] = tbl.rows[(X_train \o X_test)[i].id]

\* seven raw rows, one without cnt and one without a date among the first,
\* split four to two
SplitDisciplineWitness ==
    /\ pc = "time_split"
    /\ Len(tbl.rows) = 7
    /\ tbl.rows[2].cnt = "NaN"
    /\ tbl.rows[1].dteday = "NaT"
    /\ Len(X_train) = 4
    /\ Len(X_test) = 2

(***************************************************************************)
(* Properties of the comparison table (SpecCompare)                        *)
(***************************************************************************)
\* C9: the comparison table has one row per model, Ridge and RandomForest,
\* each scored on the same test rows, sorted ascending by RMSE: the first
\* row holds the lower RMSE.
ComparisonOrdered ==
    (pc = "compared") =>
        /\ Len(comparison) = 2
        /\ {comparison[i].model : i \in 1..2} = {"Ridge", "RandomForest"}
        /\ \A i \in 1..2 : \E j \in 1..2 : comparison[i] = results[j]
        /\ comparison[1].test = X_test /\ comparison[2].test = X_test
        /\ comparison[1].rmse <= comparison[2].rmse

\* RandomForest scored the lower RMSE and moved to the first row
ComparisonOrderedWitness ==
    /\ pc = "compared"
    /\ results[1].model = "Ridge"
    /\ comparison[1].model = "RandomForest"
    /\ comparison[1].rmse < comparison[2].rmse

\* the table has the column is_weekend: pipeline.py:89 adds it when weekday is there
HasIsWeekend(t) == "weekday" \in t.cols

(***************************************************************************)
(* C12  Day-type classification.  is_weekend is 1 exactly when the weekday *)
(* code is 0 or 6.  In a table with workingday and is_weekend a record is  *)
(* weekend when is_weekend = 1, else non-workingday when workingday = 0,   *)
(* else workingday; with is_weekend alone it is weekend when is_weekend =  *)
(* 1 and workingday otherwise.  Every record gets one of the three         *)
(* categories.                                                             *)
(***************************************************************************)
DayTypeClassification ==
    pc = "peaked" =>
        /\ Len(tagged) = Len(tbl.rows)
        /\ \A i \in 1..Len(tagged) :
            LET r == tagged[i]
            IN  /\ r._daytype \in {"weekend", "non-workingday", "workingday"}
                /\ HasIsWeekend(tbl) =>
                      /\ r.is_weekend \in {0, 1}
                      /\ (r.is_weekend = 1 <=> tbl.rows[i].weekday \in {0, 6})
                /\ (HasIsWeekend(tbl) /\ "workingday" \in tbl.cols) =>
                      r._daytype = (IF r.is_weekend = 1 THEN "weekend"
                                    ELSE IF tbl.rows[i].workingday = 0 THEN "non-workingday"
                                    ELSE "workingday")
                /\ (HasIsWeekend(tbl) /\ "workingday" \notin tbl.cols) =>
                      r._daytype = (IF r.is_weekend = 1 THEN "weekend" ELSE "workingday")

\* a table with both flags whose records fall in all three categories, one of
\* them a Saturday that is not a working day
DayTypeClassificationWitness ==
    /\ pc = "peaked"
    /\ {"weekday", "workingday"} \subseteq tbl.cols
    /\ {tagged[i]._daytype : i \in 1..Len(tagged)} = {"weekend", "non-workingday", "workingday"}
    /\ \E i \in 1..Len(tagged) :
          /\ tagged[i].weekday = 6
          /\ tagged[i].workingday = 0
          /\ tagged[i]._daytype = "weekend"

(***************************************************************************)
(* Properties of the launcher and the dashboard (SpecLaunch)               *)
(***************************************************************************)
Completed(lv) == \E i \in 1..Len(runs) : runs[i] = lv

\* the file name main() gives the artefact the dashboard looks for at p
Unkeyed(p) == <<p[1], <<p[2][Len(p[2])]>>>>

\* C11: the dashboard reads the files the pipeline writes: once the run for
\* level L has completed, the dashboard set to L is not stopped and finds
\* each artefact (peak hours, summary, metrics, model comparison, the five
\* figures) that the pipeline has written.
DashboardConsumption ==
    (pc = "streamlit" /\ app.level # "" /\ Completed(app.level)) =>
        /\ ~app.stopped
        /\ \A p \in AppPaths(app.level) : Exists(Unkeyed(p)) => p \in app.found

\* the figures main() draws only for a table with hr
HourOnlyFigures == {FigHeatmap, FigAvgByHour, FigAvgByHourDaytype}

\* the files every run with cnt writes again
RewrittenOutputs == {PeakPath, PeakTxtPath, SummaryPath, MetricsPath, CompPath}

\* C13: a run creates or overwrites files and removes none, and the names
\* under outputs/ do not carry the level; so after the launcher's default
\* sequence, the hour run then the day run, the hour-only figures are still
\* the ones the hour run wrote, while peak_hours.csv, peak_hours_summary.txt,
\* summary.csv, metrics.txt and model_comparison.csv hold what the day run
\* wrote, peak_hours.csv being the one-row note.
FrameAcrossRuns ==
    /\ [][\A p \in DOMAIN files : p \in DOMAIN files']_vars
    /\ [](/\ \A p \in DOMAIN files : p[1] = "outputs" => Len(p[2]) = 1
          /\ runs = <<"hour", "day">> =>
                /\ \A p \in HourOnlyFigures :
                      Exists(p) /\ files[p].kind = "figure" /\ files[p].level = "hour"
                /\ \A p \in RewrittenOutputs : Exists(p) /\ files[p].level = "day"
                /\ files[PeakPath].kind = "note"
                /\ files[PeakTxtPath].kind = "no_summary")

\* both runs of the default sequence have returned: the hour run's day-type
\* figure is there next to the day run's note
FrameAcrossRunsWitness ==
    /\ runs = <<"hour", "day">>
    /\ pc = "streamlit"
    /\ Exists(FigAvgByHourDaytype)
    /\ files[FigAvgByHourDaytype].level = "hour"
    /\ files[PeakPath] = [kind |-> "note", rows |-> "1", level |-> "day"]

====
